---- MODULE Spec2Model ----
(***************************************************************************)
(* Model of tape_pytorch/main.py: the five entry points run_train,         *)
(* run_eval, run_embed, run_train_distributed and run_gridsearch.          *)
(*                                                                         *)
(* One behaviour is one call of one entry point.  Init draws the entry     *)
(* point, the invocation mode (args given / args = None) and the inputs;   *)
(* the actions are the successive steps of the called function, in source  *)
(* order.  A raised exception is recorded in `error` and ends the call.    *)
(* Calls into collaborators (utils, models, training, registry) are        *)
(* logged in `trace`; their outcomes are inputs chosen with \E.            *)
(***************************************************************************)
EXTENDS Integers, Sequences, FiniteSets, TLC

VARIABLES entry, argsGiven, pc, args, APEX_FOUND, error, missing, trace,
          loader, save_outputs, output_dict, file,
          config, grid_values, grid_search_args, i, launches, failed

vars == <<entry, argsGiven, pc, args, APEX_FOUND, error, missing, trace,
          loader, save_outputs, output_dict, file,
          config, grid_values, grid_search_args, i, launches, failed>>

(* ---------------------------- bounds ----------------------------------- *)

\* gradient_accumulation_steps ranges over -MaxSteps .. MaxSteps
MaxSteps == 2
\* a loader yields at most MaxBatches batches
MaxBatches == 2
\* a batch holds at most MaxBatchSize examples
MaxBatchSize == 2
\* a grid dimension lists at most MaxDim values
MaxDim == 2

(* ------------------------- Python values ------------------------------- *)

\* A Python value: t is the type tag, n the number (int, bool) or the
\* length (list), s the text (str).
IntV(k) == [t |-> "int", n |-> k, s |-> ""]
StrV(x) == [t |-> "str", n |-> 0, s |-> x]
BoolV(b) == [t |-> "bool", n |-> IF b THEN 1 ELSE 0, s |-> ""]
NoneV == [t |-> "none", n |-> 0, s |-> ""]
EmptyList == [t |-> "list", n |-> 0, s |-> ""]

\* An argparse.Namespace is a function from its attribute names to values.
EmptyNamespace == [k \in {} |-> NoneV]
HasAttr(ns, k) == k \in DOMAIN ns
SetAttr(ns, k, v) == [x \in DOMAIN ns \cup {k} |-> IF x = k THEN v ELSE ns[x]]
Restrict(ns, K) == [k \in K |-> ns[k]]

NoError == [type |-> "none", at |-> "none"]
Raise(type, at) == [type |-> type, at |-> at]

(* ------------------------------ run_train ------------------------------ *)

\* inspect.getfullargspec(training.run_train).args, restricted to the names
\* main.py itself reads plus two it only forwards.
arg_names == {"model_type", "task", "gradient_accumulation_steps", "fp16", "local_rank"}

\* Every namespace create_train_parser can produce: all destinations set.
TrainParsed ==
    [model_type : {StrV("transformer")},
     task : {StrV("fluorescence")},
     gradient_accumulation_steps : {IntV(k) : k \in (0 - MaxSteps)..MaxSteps},
     fp16 : {BoolV(TRUE), BoolV(FALSE)},
     local_rank : {IntV(-1), IntV(0)},
     debug : {BoolV(FALSE)}]

TrainKeys == arg_names \cup {"debug"}

\* Every namespace a caller can pass: any subset of the attributes.
TrainGiven == {Restrict(ns, K) : ns \in TrainParsed, K \in SUBSET TrainKeys}

\* lines 176-179: args = train_parser.parse_args() when args is None
RunTrainArgs ==
    /\ entry = "train" /\ pc = "start"
    /\ IF argsGiven
       THEN UNCHANGED <<args, trace>>
       ELSE /\ args' \in TrainParsed
            /\ trace' = Append(trace, "parse_args")
    /\ pc' = "train_gas"
    /\ UNCHANGED <<entry, argsGiven, APEX_FOUND, error, missing,
                   loader, save_outputs, output_dict, file,
                   config, grid_values, grid_search_args, i, launches, failed>>

\* a guard that lets zero through
GasInvalidOffByOne(steps) == steps < 0

\* the guard of line 181
GasInvalid(steps) == steps < 1

\* lines 181-184: the gradient_accumulation_steps check
RunTrainCheckSteps ==
    /\ entry = "train" /\ pc = "train_gas"
    /\ IF ~HasAttr(args, "gradient_accumulation_steps")
       THEN error' = Raise("AttributeError", "gas_check") /\ pc' = "done"
       ELSE IF GasInvalid(args["gradient_accumulation_steps"].n)
       THEN error' = Raise("ValueError", "gas_check") /\ pc' = "done"
       ELSE error' = error /\ pc' = "train_apex"
    /\ trace' = Append(trace, "gas_check")
    /\ UNCHANGED <<entry, argsGiven, args, APEX_FOUND, missing,
                   loader, save_outputs, output_dict, file,
                   config, grid_values, grid_search_args, i, launches, failed>>

\* lines 186-189: (args.fp16 or args.local_rank != -1) and not APEX_FOUND;
\* `or` reads local_rank only when fp16 is false.
RunTrainCheckApex ==
    /\ entry = "train" /\ pc = "train_apex"
    /\ IF ~HasAttr(args, "fp16")
       THEN error' = Raise("AttributeError", "apex_check") /\ pc' = "done"
       ELSE IF args["fp16"].n = 0 /\ ~HasAttr(args, "local_rank")
       THEN error' = Raise("AttributeError", "apex_check") /\ pc' = "done"
       ELSE IF (args["fp16"].n = 1 \/ args["local_rank"].n # -1) /\ ~APEX_FOUND
       THEN error' = Raise("ImportError", "apex_check") /\ pc' = "done"
       ELSE error' = error /\ pc' = "train_reconcile"
    /\ trace' = Append(trace, "apex_check")
    /\ UNCHANGED <<entry, argsGiven, args, APEX_FOUND, missing,
                   loader, save_outputs, output_dict, file,
                   config, grid_values, grid_search_args, i, launches, failed>>

\* line 194: missing = set(arg_names) - set(arg_dict.keys())
MissingNames(ns) == arg_names \ DOMAIN ns

\* lines 191-199: reconcile by name, then call training.run_train
RunTrainReconcile ==
    /\ entry = "train" /\ pc = "train_reconcile"
    /\ IF MissingNames(args) # {}
       THEN /\ error' = Raise("RuntimeError", "reconcile")
            /\ missing' = MissingNames(args)
            /\ trace' = Append(trace, "reconcile")
       ELSE /\ error' = error
            /\ missing' = missing
            /\ trace' = trace \o <<"reconcile", "training.run_train">>
    /\ pc' = "done"
    /\ UNCHANGED <<entry, argsGiven, args, APEX_FOUND,
                   loader, save_outputs, output_dict, file,
                   config, grid_values, grid_search_args, i, launches, failed>>

(* ------------------------- run_eval / run_embed ------------------------ *)

\* a path is a stem and a suffix; Path.with_suffix replaces the suffix
with_suffix(path, suffix) == [stem |-> path.stem, suffix |-> suffix]
ResultsPath == [stem |-> "pretrained/results", suffix |-> "pkl"]
Outfiles == {[stem |-> "emb", suffix |-> ""], [stem |-> "emb", suffix |-> "npz"]}
Paths == {ResultsPath} \cup Outfiles \cup {with_suffix(p, "pkl") : p \in Outfiles}

Absent == [state |-> "absent", data |-> <<>>]
Old == [state |-> "old", data |-> <<>>]
Written(data) == [state |-> "written", data |-> data]

\* namespaces of create_eval_parser / create_embed_parser: from_pretrained
\* is a required positional there, so parsing never leaves it None
EvalParsed ==
    [from_pretrained : {StrV("pretrained")},
     local_rank : {IntV(-1), IntV(0)},
     metrics : {EmptyList, [t |-> "list", n |-> 1, s |-> "mse"]}]
EvalGiven ==
    [from_pretrained : {StrV("pretrained"), NoneV},
     local_rank : {IntV(-1), IntV(0)},
     metrics : {EmptyList, [t |-> "list", n |-> 1, s |-> "mse"]}]
EmbedParsed ==
    [from_pretrained : {StrV("pretrained")},
     local_rank : {IntV(-1), IntV(0)},
     outfile : Outfiles]
EmbedGiven ==
    [from_pretrained : {StrV("pretrained"), NoneV},
     local_rank : {IntV(-1), IntV(0)},
     outfile : Outfiles]

\* the fields the save callbacks extract
Fields == {"ids", "embedding"}

\* a batch of the loader: how many examples it holds and which fields the
\* save callback returns for it
Batches == [size : 1..MaxBatchSize, fields : (SUBSET Fields) \ {{}}]

RECURSIVE SeqsUpTo(_, _)
SeqsUpTo(S, n) ==
    IF n = 0 THEN {<<>>}
    ELSE LET shorter == SeqsUpTo(S, n - 1)
         IN  shorter \cup {Append(q, x) : q \in {r \in shorter : Len(r) = n - 1}, x \in S}

Loaders == SeqsUpTo(Batches, MaxBatches)

\* save_callback(model, batch, outputs) for the k-th batch: per field, one
\* entry per example, in the batch's order
save_callback(k, batch) ==
    [f \in batch.fields |-> [j \in 1..batch.size |-> <<f, k, j>>]]

\* lines 203-206 / 257-260
RunEvalArgs ==
    /\ entry \in {"eval", "embed"} /\ pc = "start"
    /\ IF argsGiven
       THEN UNCHANGED <<args, trace>>
       ELSE /\ args' \in (IF entry = "eval" THEN EvalParsed ELSE EmbedParsed)
            /\ trace' = Append(trace, "parse_args")
    /\ pc' = "preconditions"
    /\ UNCHANGED <<entry, argsGiven, APEX_FOUND, error, missing,
                   loader, save_outputs, output_dict, file,
                   config, grid_values, grid_search_args, i, launches, failed>>

\* a precondition step that forgets the distributed check
PreconditionErrorNoRank(ns) ==
    IF ns["from_pretrained"].t = "none" THEN Raise("ValueError", "pretrained_check")
    ELSE NoError

\* lines 208-211 / 262-265
PreconditionError(ns) ==
    IF ns["from_pretrained"].t = "none" THEN Raise("ValueError", "pretrained_check")
    ELSE IF ns["local_rank"].n # -1 THEN Raise("ValueError", "rank_check")
    ELSE NoError

RunEvalPreconditions ==
    /\ entry \in {"eval", "embed"} /\ pc = "preconditions"
    /\ error' = PreconditionError(args)
    /\ pc' = IF PreconditionError(args) = NoError THEN "setup" ELSE "done"
    /\ trace' = trace \o (IF args["from_pretrained"].t = "none"
                          THEN <<"pretrained_check">>
                          ELSE <<"pretrained_check", "rank_check">>)
    /\ UNCHANGED <<entry, argsGiven, args, APEX_FOUND, missing,
                   loader, save_outputs, output_dict, file,
                   config, grid_values, grid_search_args, i, launches, failed>>

\* the collaborator calls of lines 213-239 / 267-290, in source order
EvalSetupCalls ==
    <<"utils.setup_distributed", "utils.setup_logging", "utils.set_random_seeds",
      "models.get", "utils.setup_dataset", "utils.setup_loader",
      "registry.get_callback", "registry.get_metric">>
EmbedSetupCalls ==
    <<"utils.setup_distributed", "utils.setup_logging", "utils.set_random_seeds",
      "models.get", "utils.setup_dataset", "utils.setup_loader",
      "model.eval", "registry.get_callback">>
SetupCalls == IF entry = "eval" THEN EvalSetupCalls ELSE EmbedSetupCalls

\* lines 213-239 / 267-290: the setup runs its calls in order; any of them
\* may raise, which ends the run at that call
RunEvalSetup ==
    /\ entry \in {"eval", "embed"} /\ pc = "setup"
    /\ \E k \in 1..Len(SetupCalls), ok \in BOOLEAN :
          /\ (ok => k = Len(SetupCalls))
          /\ trace' = trace \o SubSeq(SetupCalls, 1, k)
          /\ error' = IF ok THEN error ELSE Raise("CollaboratorError", SetupCalls[k])
          /\ pc' = IF ~ok THEN "done" ELSE IF entry = "eval" THEN "eval_epoch" ELSE "embed_loop"
    /\ UNCHANGED <<entry, argsGiven, args, APEX_FOUND, missing,
                   loader, save_outputs, output_dict, file,
                   config, grid_values, grid_search_args, i, launches, failed>>

\* the number of examples a loader yields
RECURSIVE NumExamples(_)
NumExamples(ld) == IF ld = <<>> THEN 0 ELSE ld[1].size + NumExamples(Tail(ld))

\* line 241: training.run_eval_epoch makes the full pass; it may raise on a
\* batch, and otherwise returns the accumulated fields
RunEvalEpoch ==
    /\ entry = "eval" /\ pc = "eval_epoch"
    /\ trace' = Append(trace, "training.run_eval_epoch")
    /\ \/ /\ loader # <<>>
          /\ error' = Raise("CollaboratorError", "batch")
          /\ pc' = "done"
          /\ UNCHANGED save_outputs
       \/ \E keys \in SUBSET {"target", "prediction"} :
             /\ save_outputs' = [k \in keys |-> NumExamples(loader)]
             /\ error' = error
             /\ pc' = "eval_metrics"
    /\ UNCHANGED <<entry, argsGiven, args, APEX_FOUND, missing,
                   loader, output_dict, file,
                   config, grid_values, grid_search_args, i, launches, failed>>

\* lines 243-248: one metric per requested name over the target and
\* prediction fields, merged into save_outputs
RunEvalMetrics ==
    /\ entry = "eval" /\ pc = "eval_metrics"
    /\ trace' = Append(trace, "metrics")
    /\ IF args["metrics"].n = 0
       THEN error' = error /\ pc' = "eval_write" /\ UNCHANGED save_outputs
       ELSE IF ~({"target", "prediction"} \subseteq DOMAIN save_outputs)
       THEN error' = Raise("KeyError", "metrics") /\ pc' = "done" /\ UNCHANGED save_outputs
       ELSE \/ /\ error' = Raise("CollaboratorError", "metrics")
               /\ pc' = "done"
               /\ UNCHANGED save_outputs
            \/ /\ error' = error
               /\ pc' = "eval_write"
               /\ save_outputs' = [k \in DOMAIN save_outputs \cup {args["metrics"].s} |->
                                      IF k = args["metrics"].s THEN 0 ELSE save_outputs[k]]
    /\ UNCHANGED <<entry, argsGiven, args, APEX_FOUND, missing,
                   loader, output_dict, file,
                   config, grid_values, grid_search_args, i, launches, failed>>

\* lines 250-253: results.pkl is opened for writing and save_outputs dumped
RunEvalWrite ==
    /\ entry = "eval" /\ pc = "eval_write"
    /\ trace' = Append(trace, "open_wb")
    /\ file' = [file EXCEPT ![ResultsPath] = Written(save_outputs)]
    /\ pc' = "done"
    /\ UNCHANGED <<entry, argsGiven, args, APEX_FOUND, error, missing,
                   loader, save_outputs, output_dict,
                   config, grid_values, grid_search_args, i, launches, failed>>

\* an embed loop that dumps what it has after every batch
RunEmbedBatchStreaming ==
    /\ entry = "embed" /\ pc = "embed_loop"
    /\ Len(save_outputs) < Len(loader)
    /\ trace' = Append(trace, "batch")
    /\ \/ /\ error' = Raise("CollaboratorError", "batch")
          /\ pc' = "done"
          /\ UNCHANGED <<save_outputs, file>>
       \/ /\ save_outputs' = Append(save_outputs,
                 save_callback(Len(save_outputs) + 1, loader[Len(save_outputs) + 1]))
          /\ file' = [file EXCEPT ![with_suffix(args["outfile"], "pkl")] = Written(save_outputs')]
          /\ UNCHANGED <<error, pc>>
    /\ UNCHANGED <<entry, argsGiven, args, APEX_FOUND, missing,
                   loader, output_dict,
                   config, grid_values, grid_search_args, i, launches, failed>>

\* lines 292-299: one batch of the embed loop; the forward pass or the
\* callback may raise
RunEmbedBatch ==
    /\ entry = "embed" /\ pc = "embed_loop"
    /\ Len(save_outputs) < Len(loader)
    /\ trace' = Append(trace, "batch")
    /\ \/ /\ error' = Raise("CollaboratorError", "batch")
          /\ pc' = "done"
          /\ UNCHANGED save_outputs
       \/ /\ save_outputs' = Append(save_outputs,
                 save_callback(Len(save_outputs) + 1, loader[Len(save_outputs) + 1]))
          /\ UNCHANGED <<error, pc>>
    /\ UNCHANGED <<entry, argsGiven, args, APEX_FOUND, missing,
                   loader, output_dict, file,
                   config, grid_values, grid_search_args, i, launches, failed>>

\* a concatenation that takes the batches last to first
RECURSIVE chain_reversed(_)
chain_reversed(seqs) ==
    IF seqs = <<>> THEN <<>> ELSE chain_reversed(Tail(seqs)) \o Head(seqs)

\* itertools.chain.from_iterable over a sequence of sequences
RECURSIVE chain_from_iterable(_)
chain_from_iterable(seqs) ==
    IF seqs = <<>> THEN <<>> ELSE Head(seqs) \o chain_from_iterable(Tail(seqs))

\* line 303: the values of one key over all batches, chained
ChainKey(outputs, key) ==
    chain_from_iterable([k \in 1..Len(outputs) |-> outputs[k][key]])

\* lines 301-304: keys of the first batch; each key chained over the batches
RunEmbedConcat ==
    /\ entry = "embed" /\ pc = "embed_loop"
    /\ Len(save_outputs) = Len(loader)
    /\ trace' = Append(trace, "concat")
    /\ IF save_outputs = <<>>
       THEN error' = Raise("IndexError", "concat") /\ pc' = "done" /\ UNCHANGED output_dict
       ELSE IF \E k \in 1..Len(save_outputs) :
                  ~(DOMAIN save_outputs[1] \subseteq DOMAIN save_outputs[k])
       THEN error' = Raise("KeyError", "concat") /\ pc' = "done" /\ UNCHANGED output_dict
       ELSE /\ output_dict' = [key \in DOMAIN save_outputs[1] |-> ChainKey(save_outputs, key)]
            /\ error' = error
            /\ pc' = "embed_write"
    /\ UNCHANGED <<entry, argsGiven, args, APEX_FOUND, missing,
                   loader, save_outputs, file,
                   config, grid_values, grid_search_args, i, launches, failed>>

\* lines 306-307: outfile with suffix .pkl is opened for writing
RunEmbedWrite ==
    /\ entry = "embed" /\ pc = "embed_write"
    /\ trace' = Append(trace, "open_wb")
    /\ file' = [file EXCEPT ![with_suffix(args["outfile"], "pkl")] = Written(output_dict)]
    /\ pc' = "done"
    /\ UNCHANGED <<entry, argsGiven, args, APEX_FOUND, error, missing,
                   loader, save_outputs, output_dict,
                   config, grid_values, grid_search_args, i, launches, failed>>

(* ----------------- run_train_distributed / run_gridsearch -------------- *)

\* utils.get_expname: a given name is kept, a missing one is derived from
\* the task and the model type
get_expname(exp_name, task, model_type) ==
    IF exp_name.t = "none" THEN StrV(task.s \o "_" \o model_type.s) ELSE exp_name

\* the attributes lines 321-325 read, among the ones modelled (nnodes,
\* node_rank, nproc_per_node and master_port are always supplied)
DistReads == {"exp_name", "task", "model_type", "master_addr"}

\* namespaces of the distributed train parser
DistParsed ==
    [exp_name : {NoneV, StrV("mine")},
     task : {StrV("fluorescence")},
     model_type : {StrV("transformer")},
     master_addr : {StrV("127.0.0.1")}]
DistGiven == {Restrict(ns, K) : ns \in DistParsed,
                                K \in {DistReads, DistReads \ {"master_addr"}, DistReads \ {"task"}}}

\* lines 313-317
RunTrainDistributedArgs ==
    /\ entry = "dist" /\ pc = "start"
    /\ IF argsGiven
       THEN UNCHANGED <<args, trace>>
       ELSE /\ args' \in DistParsed
            /\ trace' = Append(trace, "parse_args")
    /\ pc' = "dist_launch"
    /\ UNCHANGED <<entry, argsGiven, APEX_FOUND, error, missing,
                   loader, save_outputs, output_dict, file,
                   config, grid_values, grid_search_args, i, launches, failed>>

\* lines 321-325 on namespace ns: the exception it raises, given whether
\* the process group ran to completion
DistError(ns, ok) ==
    IF ~(DistReads \subseteq DOMAIN ns) THEN Raise("AttributeError", "run_train_distributed")
    ELSE IF ~ok THEN Raise("WorkerFailure", "run_train_distributed")
    ELSE NoError

\* lines 321-325 as an entry point: the name is fixed first, then the
\* process group is launched
RunTrainDistributed ==
    /\ entry = "dist" /\ pc = "dist_launch"
    /\ \E ok \in BOOLEAN :
          /\ error' = DistError(args, ok)
          /\ IF {"exp_name", "task", "model_type"} \subseteq DOMAIN args
             THEN /\ args' = SetAttr(args, "exp_name",
                             get_expname(args["exp_name"], args["task"], args["model_type"]))
                  /\ trace' = trace \o (IF HasAttr(args, "master_addr")
                                        THEN <<"utils.get_expname", "utils.launch_process_group">>
                                        ELSE <<"utils.get_expname">>)
             ELSE UNCHANGED <<args, trace>>
    /\ pc' = "done"
    /\ UNCHANGED <<entry, argsGiven, APEX_FOUND, missing,
                   loader, save_outputs, output_dict, file,
                   config, grid_values, grid_search_args, i, launches, failed>>

\* A JSON config is a sequence of entries in file order; an entry is a key
\* and either a scalar (list = FALSE, one value) or a list of values.
Scalar(key, v) == [key |-> key, list |-> FALSE, vals |-> <<v>>]
List(key, vs) == [key |-> key, list |-> TRUE, vals |-> vs]
IntList(n) == [k \in 1..n |-> IntV(k)]

\* the configs explored: every key is left out or takes one of its shapes
TaskOpts == {<<>>, <<Scalar("task", StrV("fluorescence"))>>}
AddrOpts == {<<>>, <<Scalar("master_addr", StrV("127.0.0.1"))>>,
             <<Scalar("master_addr", IntV(0))>>,
             <<List("master_addr", <<StrV("10.0.0.1"), StrV("10.0.0.2")>>)>>}
RateOpts == {<<>>, <<Scalar("learning_rate", IntV(1))>>}
            \cup {<<List("learning_rate", IntList(n))>> : n \in 1..MaxDim}
BatchOpts == {<<>>} \cup {<<List("batch_size", IntList(n))>> : n \in 1..MaxDim}
WarmupOpts == {<<>>, <<List("warmup_steps", IntList(MaxDim))>>}
MetricsOpts == {<<>>, <<List("metrics", <<StrV("mse")>>)>>}
ForcedOpts == {<<>>, <<List("save_callback", <<StrV("save_predictions")>>)>>,
               <<List("log_level", <<StrV("INFO"), StrV("DEBUG")>>)>>,
               <<List("exp_name", <<StrV("mine")>>)>>}
Configs ==
    {<<Scalar("model_type", StrV("transformer"))>> \o t \o a \o r \o b \o w \o m \o f :
        t \in TaskOpts, a \in AddrOpts, r \in RateOpts, b \in BatchOpts,
        w \in WarmupOpts, m \in MetricsOpts, f \in ForcedOpts}

\* line 346: which entries are grid dimensions
IsGrid(e) == e.list /\ e.key # "metrics"

\* lines 342-349: the two dicts, in insertion order
RECURSIVE GridValues(_)
GridValues(cfg) ==
    IF cfg = <<>> THEN <<>>
    ELSE IF IsGrid(Head(cfg)) THEN <<Head(cfg)>> \o GridValues(Tail(cfg))
    ELSE GridValues(Tail(cfg))

\* the value a fixed entry holds: a scalar as it is, the metrics list whole
FixedValue(e) == IF e.list THEN [t |-> "list", n |-> Len(e.vals), s |-> e.vals[1].s]
                 ELSE e.vals[1]

\* line 351: argparse.Namespace(**fixed_values)
FixedNamespace(cfg) ==
    LET fixed == {k \in 1..Len(cfg) : ~IsGrid(cfg[k])}
    IN  [key \in {cfg[k].key : k \in fixed} |->
            FixedValue(cfg[CHOOSE k \in fixed : cfg[k].key = key])]

\* namespaces a caller can pass to run_gridsearch
GridGiven == {FixedNamespace(c) : c \in {x \in Configs : GridValues(x) = <<>>}}

Undefined == [defined |-> FALSE, items |-> <<>>]
Defined(items) == [defined |-> TRUE, items |-> items]

\* lines 335-351: with args = None the config file is read and split
RunGridsearchArgs ==
    /\ entry = "grid" /\ pc = "start"
    /\ IF argsGiven
       THEN UNCHANGED <<args, trace, grid_values>>
       ELSE /\ args' = FixedNamespace(config)
            /\ grid_values' = Defined(GridValues(config))
            /\ trace' = trace \o <<"parse_args", "json.load">>
    /\ pc' = "grid_force"
    /\ UNCHANGED <<entry, argsGiven, APEX_FOUND, error, missing,
                   loader, save_outputs, output_dict, file,
                   config, grid_search_args, i, launches, failed>>

\* random.randint(0, int(1e6)), sampled at a small value and at its top
RandInts == {42, 1000000}

\* "{:0>6d}": the decimal digits, zero-filled on the left to width 6
RECURSIVE ZeroFill(_, _)
ZeroFill(digits, width) ==
    IF Len(digits) >= width THEN digits ELSE ZeroFill("0" \o digits, width)

\* line 354
BatchName(r) == StrV("gridsearch" \o "_" \o ZeroFill(ToString(r), 6))

\* lines 353-355: the forced fields of the shared args
RunGridsearchForce ==
    /\ entry = "grid" /\ pc = "grid_force"
    /\ \E r \in RandInts :
          args' = SetAttr(SetAttr(SetAttr(args, "log_level", StrV("WARN")),
                                  "exp_name", BatchName(r)),
                          "save_callback", EmptyList)
    /\ pc' = "grid_product"
    /\ UNCHANGED <<entry, argsGiven, APEX_FOUND, error, missing, trace,
                   loader, save_outputs, output_dict, file,
                   config, grid_values, grid_search_args, i, launches, failed>>

\* itertools.product over the unrolled dimensions: tuples of (key, value)
\* pairs, the first dimension varying slowest
RECURSIVE product(_)
product(dims) ==
    IF dims = <<>> THEN << <<>> >>
    ELSE LET rest == product(Tail(dims))
             d == Head(dims)
             n == Len(rest)
         IN  [p \in 1..(Len(d.vals) * n) |->
                 << <<d.key, d.vals[((p - 1) \div n) + 1]>> >> \o rest[((p - 1) % n) + 1]]

\* lines 367-369: grid_values is bound only on the args = None path
RunGridsearchProduct ==
    /\ entry = "grid" /\ pc = "grid_product"
    /\ IF ~grid_values.defined
       THEN /\ error' = Raise("NameError", "product")
            /\ pc' = "done"
            /\ UNCHANGED grid_search_args
       ELSE /\ grid_search_args' = product(grid_values.items)
            /\ error' = error
            /\ pc' = "grid_launch"
    /\ UNCHANGED <<entry, argsGiven, args, APEX_FOUND, missing, trace,
                   loader, save_outputs, output_dict, file,
                   config, grid_values, i, launches, failed>>

\* lines 373-374: setattr for every pair of the combination
RECURSIVE Overlay(_, _)
Overlay(ns, grid_args) ==
    IF grid_args = <<>> THEN ns
    ELSE Overlay(SetAttr(ns, Head(grid_args)[1], Head(grid_args)[2]), Tail(grid_args))

\* lines 371-374: copy(args), the indexed name, then the overlay
RunArgs(ns, idx, grid_args) ==
    Overlay(SetAttr(ns, "exp_name", StrV(ns["exp_name"].s \o "_" \o ToString(idx))),
            grid_args)

\* an iteration that catches the failure of its launch and goes on
RunGridsearchLaunchResilient ==
    /\ entry = "grid" /\ pc = "grid_launch"
    /\ i < Len(grid_search_args)
    /\ LET run_args == RunArgs(args, i, grid_search_args[i + 1])
       IN  /\ launches' = Append(launches, run_args)
           /\ trace' = Append(trace, "run_train_distributed")
           /\ \E ok \in BOOLEAN :
                 failed' = IF DistError(run_args, ok) = NoError THEN failed
                           ELSE failed \cup {i}
           /\ pc' = "grid_advance"
    /\ UNCHANGED <<entry, argsGiven, args, APEX_FOUND, error, missing,
                   loader, save_outputs, output_dict, file,
                   config, grid_values, grid_search_args, i>>

\* lines 370-377: one iteration up to the launch; an exception of
\* run_train_distributed leaves the loop and the function
RunGridsearchLaunch ==
    /\ entry = "grid" /\ pc = "grid_launch"
    /\ i < Len(grid_search_args)
    /\ LET run_args == RunArgs(args, i, grid_search_args[i + 1])
       IN  /\ launches' = Append(launches, run_args)
           /\ trace' = Append(trace, "run_train_distributed")
           /\ \E ok \in BOOLEAN :
                 /\ error' = DistError(run_args, ok)
                 /\ failed' = IF DistError(run_args, ok) = NoError THEN failed
                              ELSE failed \cup {i}
                 /\ pc' = IF DistError(run_args, ok) = NoError THEN "grid_advance" ELSE "done"
    /\ UNCHANGED <<entry, argsGiven, args, APEX_FOUND, missing,
                   loader, save_outputs, output_dict, file,
                   config, grid_values, grid_search_args, i>>

\* line 378: args.master_addr += 1, then the next iteration
RunGridsearchAdvance ==
    /\ entry = "grid" /\ pc = "grid_advance"
    /\ IF ~HasAttr(args, "master_addr")
       THEN error' = Raise("AttributeError", "advance") /\ pc' = "done" /\ UNCHANGED <<args, i>>
       ELSE IF args["master_addr"].t # "int"
       THEN error' = Raise("TypeError", "advance") /\ pc' = "done" /\ UNCHANGED <<args, i>>
       ELSE /\ args' = SetAttr(args, "master_addr", IntV(args["master_addr"].n + 1))
            /\ i' = i + 1
            /\ error' = error
            /\ pc' = IF i + 1 < Len(grid_search_args) THEN "grid_launch" ELSE "done"
    /\ trace' = Append(trace, "advance")
    /\ UNCHANGED <<entry, argsGiven, APEX_FOUND, missing,
                   loader, save_outputs, output_dict, file,
                   config, grid_values, grid_search_args, launches, failed>>

(* ------------------------------ behaviours ----------------------------- *)

Entries == {"train", "eval", "embed", "dist", "grid"}

\* the namespaces a caller can pass to each entry point
Given(e) ==
    CASE e = "train" -> TrainGiven
      [] e = "eval" -> EvalGiven
      [] e = "embed" -> EmbedGiven
      [] e = "dist" -> DistGiven
      [] e = "grid" -> GridGiven

Init ==
    /\ entry \in Entries
    /\ argsGiven \in BOOLEAN
    /\ args \in (IF argsGiven THEN Given(entry) ELSE {EmptyNamespace})
    /\ pc = "start"
    /\ APEX_FOUND \in (IF entry = "train" THEN BOOLEAN ELSE {FALSE})
    /\ error = NoError
    /\ missing = {}
    /\ trace = <<>>
    /\ loader \in (IF entry \in {"eval", "embed"} THEN Loaders ELSE {<<>>})
    /\ save_outputs = <<>>
    /\ output_dict = <<>>
    /\ file \in (IF entry \in {"eval", "embed"}
                 THEN {[p \in Paths |-> Absent], [p \in Paths |-> Old]}
                 ELSE {[p \in Paths |-> Absent]})
    /\ config \in (IF entry = "grid" /\ ~argsGiven THEN Configs ELSE {<<>>})
    /\ grid_values = Undefined
    /\ grid_search_args = <<>>
    /\ i = 0
    /\ launches = <<>>
    /\ failed = {}

Next ==
    \/ RunTrainArgs
    \/ RunTrainCheckSteps
    \/ RunTrainCheckApex
    \/ RunTrainReconcile
    \/ RunEvalArgs
    \/ RunEvalPreconditions
    \/ RunEvalSetup
    \/ RunEvalEpoch
    \/ RunEvalMetrics
    \/ RunEvalWrite
    \/ RunEmbedBatch
    \/ RunEmbedConcat
    \/ RunEmbedWrite
    \/ RunTrainDistributedArgs
    \/ RunTrainDistributed
    \/ RunGridsearchArgs
    \/ RunGridsearchForce
    \/ RunGridsearchProduct
    \/ RunGridsearchLaunch
    \/ RunGridsearchAdvance

Spec == Init /\ [][Next]_vars

(* -------------------------------- claims ------------------------------- *)

Range(q) == {q[k] : k \in 1..Len(q)}
Called(step) == step \in Range(trace)
NothingWritten == \A p \in Paths : file[p].state # "written"

\* C1: whenever run_train is given args lacking a parameter name of
\* training.run_train, it ends with the missing-argument error listing
\* exactly the missing names, and training.run_train is not called.
C1_MissingArgumentError ==
    (entry = "train" /\ argsGiven /\ pc = "done" /\ arg_names \ DOMAIN args # {})
        => /\ error = Raise("RuntimeError", "reconcile")
           /\ missing = arg_names \ DOMAIN args
           /\ ~Called("training.run_train")

\* C2: once run_train has checked gradient_accumulation_steps, a value
\* below 1 has ended the call with ValueError before the apex check, the
\* reconciliation and training.run_train; a value of 1 or more has not
\* failed that check.
C2_StepsChecked ==
    (entry = "train" /\ Called("gas_check") /\ HasAttr(args, "gradient_accumulation_steps"))
        => IF args["gradient_accumulation_steps"].n < 1
           THEN /\ error = Raise("ValueError", "gas_check")
                /\ pc = "done"
                /\ ~Called("apex_check") /\ ~Called("reconcile")
                /\ ~Called("training.run_train")
           ELSE error.at # "gas_check"

C2_Witness ==
    /\ entry = "train" /\ pc = "done"
    /\ HasAttr(args, "gradient_accumulation_steps")
    /\ args["gradient_accumulation_steps"].n = 0
    /\ error.type = "ValueError"

\* C3: in run_eval and run_embed, once the preconditions have run with
\* local_rank # -1 the call has ended with ValueError, and nothing but the
\* argument parsing and the two precondition checks has happened: no setup
\* call, no pass over the loader, no file written.
C3_DistributedRejected ==
    (/\ entry \in {"eval", "embed"} /\ pc \notin {"start", "preconditions"}
     /\ args["local_rank"].n # -1)
        => /\ error.type = "ValueError"
           /\ pc = "done"
           /\ Range(trace) \subseteq {"parse_args", "pretrained_check", "rank_check"}
           /\ NothingWritten

C3_Witness ==
    /\ entry = "embed" /\ pc = "done"
    /\ args["local_rank"].n = 0
    /\ args["from_pretrained"].t = "str"
    /\ error = Raise("ValueError", "rank_check")

\* the number of combinations of a config: the product of the sizes of its
\* grid dimensions
RECURSIVE NumCombinations(_)
NumCombinations(cfg) ==
    IF cfg = <<>> THEN 1
    ELSE (IF Head(cfg).list /\ Head(cfg).key # "metrics" THEN Len(Head(cfg).vals) ELSE 1)
         * NumCombinations(Tail(cfg))

\* every launched run carries the attributes run_train_distributed reads
RunsComplete == \A k \in 1..Len(launches) : DistReads \subseteq DOMAIN launches[k]

\* C4: a gridsearch over a config file in which no launch fails ends with
\* one launch per combination, the i-th carrying the batch name plus _i.
C4_OneLaunchPerCombination ==
    (entry = "grid" /\ ~argsGiven /\ pc = "done" /\ failed = {} /\ RunsComplete)
        => /\ Len(launches) = NumCombinations(config)
           /\ \A k \in 1..Len(launches) :
                 launches[k]["exp_name"].s = args["exp_name"].s \o "_" \o ToString(k - 1)

\* C5: the advance step between launches never fails, and the launched
\* runs carry pairwise distinct coordination addresses.
C5_AdvanceSucceeds ==
    entry = "grid"
        => /\ error.at # "advance"
           /\ \A a, b \in 1..Len(launches) :
                 (a # b /\ HasAttr(launches[a], "master_addr")
                        /\ HasAttr(launches[b], "master_addr"))
                    => launches[a]["master_addr"] # launches[b]["master_addr"]

\* C6 as stated: when a launch has failed, every combination has still
\* been attempted by the time run_gridsearch ends.
C6_FailureDoesNotStopLoop ==
    (entry = "grid" /\ pc = "done" /\ failed # {} /\ RunsComplete)
        => Len(launches) = Len(grid_search_args)

\* C6 amended: a failed launch ends run_gridsearch with that failure; the
\* failed launch is the last one attempted and no later combination runs.
C6_FailureEndsGridsearch ==
    (entry = "grid" /\ failed # {})
        => /\ pc = "done"
           /\ error.at = "run_train_distributed"
           /\ failed = {Len(launches) - 1}
           /\ i = Len(launches) - 1

C6_Witness ==
    /\ entry = "grid" /\ pc = "done"
    /\ failed = {1}
    /\ Len(launches) = 2
    /\ Len(grid_search_args) > 2

\* the fields any batch of the loader produces
AllFields == UNION {loader[k].fields : k \in 1..Len(loader)}
EmbedOutput == file[with_suffix(args["outfile"], "pkl")]

\* C7 as stated: the written artifact holds every field any batch
\* produced, each with one entry per example.
C7_EveryFieldOfAnyBatch ==
    (entry = "embed" /\ pc = "done" /\ error = NoError)
        => \A f \in AllFields :
              /\ f \in DOMAIN EmbedOutput.data
              /\ Len(EmbedOutput.data[f]) = NumExamples(loader)

\* entry <<f, k, j>> comes before <<f, k2, j2>> in iteration order
Before(x, y) == x[2] < y[2] \/ (x[2] = y[2] /\ x[3] < y[3])

\* C7 amended: the written artifact holds exactly the fields of the first
\* batch; each field's list has one entry per example, batch after batch in
\* loader order and in each batch's own order; a field only later batches
\* produce is left out, and a later batch lacking a field of the first one
\* ends the run with KeyError and nothing written.
C7_FirstBatchFieldsConcatenated ==
    /\ (entry = "embed" /\ pc = "done" /\ error = NoError)
          => /\ EmbedOutput.state = "written"
             /\ DOMAIN EmbedOutput.data = loader[1].fields
             /\ \A f \in DOMAIN EmbedOutput.data :
                   LET out == EmbedOutput.data[f]
                   IN  /\ Len(out) = NumExamples(loader)
                       /\ \A p \in 1..Len(out) :
                             /\ out[p][1] = f
                             /\ out[p][2] \in 1..Len(loader)
                             /\ out[p][3] \in 1..loader[out[p][2]].size
                       /\ \A p, q \in 1..Len(out) : p < q => Before(out[p], out[q])
    /\ (entry = "embed" /\ pc = "done" /\ Len(save_outputs) = Len(loader) /\ loader # <<>>
           /\ \E k \in 1..Len(loader) : ~(loader[1].fields \subseteq loader[k].fields))
          => error = Raise("KeyError", "concat") /\ NothingWritten

C7_Witness ==
    /\ entry = "embed" /\ pc = "done" /\ error = NoError
    /\ Len(loader) = 2
    /\ loader[1].size = 2 /\ loader[2].size = 2
    /\ loader[1].fields = {"ids"} /\ loader[2].fields = {"ids", "embedding"}
    /\ EmbedOutput.state = "written"

\* C8: in run_eval and run_embed a file is written only by the last step,
\* after the whole pass and the post-processing succeeded; every run that
\* raised has written nothing.
C8_WriteOnlyAfterFullPass ==
    entry \in {"eval", "embed"}
        => /\ error # NoError => NothingWritten
           /\ ~NothingWritten
                 => /\ pc = "done" /\ error = NoError
                    /\ trace[Len(trace)] = "open_wb"
                    /\ IF entry = "eval"
                       THEN Called("training.run_eval_epoch") /\ Called("metrics")
                       ELSE /\ Len(save_outputs) = Len(loader)
                            /\ Called("concat")

C8_Witness ==
    /\ entry = "embed" /\ pc = "done"
    /\ error = Raise("CollaboratorError", "batch")
    /\ Len(save_outputs) = 1 /\ Len(loader) = 2
    /\ NothingWritten

\* C9: no entry point, in either invocation mode, reads a variable that
\* its mode left unbound.
C9_BothModesDefined == error.type # "NameError"

\* C10: every run handed to run_train_distributed by run_gridsearch has
\* save_callback = [], log_level = 'WARN' and the name batch name + _i.
C10_ForcedFields ==
    (entry = "grid" /\ RunsComplete)
        => \A k \in 1..Len(launches) :
              /\ launches[k]["save_callback"] = EmptyList
              /\ launches[k]["log_level"] = StrV("WARN")
              /\ launches[k]["exp_name"].s = args["exp_name"].s \o "_" \o ToString(k - 1)
====
